---- MODULE Spec2Model ----
(***************************************************************************)
(* N-dimensional Minesweeper (src/MineSweeper.py): new_game_nd, dig_nd,    *)
(* render_nd and the helpers they call, as a state machine over one game   *)
(* dictionary.                                                             *)
(*                                                                         *)
(* Python values are kept with their run-time type, because the code       *)
(* compares and indexes values of different types (a board cell is an int  *)
(* or the string '.', an array node is a list):                            *)
(*   PyInt(k), PyStr(s), PyBool(b), PyList(<<...>>), and Exc(kind) for a   *)
(*   raised exception.  Coordinates and dimensions are Python tuples of    *)
(*   ints, modelled as sequences of integers (1-indexed here, 0-indexed in *)
(*   the source).                                                          *)
(***************************************************************************)
EXTENDS Integers, Sequences, FiniteSets, TLC

VARIABLES
    pc,          \* "new": new_game_nd not yet called; "game": it returned; "raised": it raised
    dimensions,  \* argument of new_game_nd, then game["dimensions"]
    mines,       \* argument of new_game_nd (the list of mine coordinates)
    board,       \* game["board"]
    visible,     \* game["visible"]
    state,       \* game["state"]
    call,        \* the last call made: its operation, argument, outcome
    result       \* the object the caller holds from the last call that returned
                 \* one: which object it is, and its value

vars == <<pc, dimensions, mines, board, visible, state, call, result>>

----------------------------------------------------------------------------
(* Bounds of the model. *)

\* longest list of mines handed to new_game_nd in the game-play specification
MaxMines == 4

\* longest list of mines handed to new_game_nd in the construction specification
MaxMinesNew == 2

\* the boards played on
DimChoices == {<<3>>, <<5>>, <<2, 2>>, <<2, 3>>}

\* longest list of mines in the games dug at arbitrary coordinates
MaxMinesAny == 2

\* longest list of mines in the small games that are rendered
MaxMinesRender == 2

\* the boards the cascade is run on by itself, and their longest list of mines
DimChoicesFill == {<<5>>, <<2, 3>>, <<3, 3>>, <<2, 2, 2>>}
MaxMinesFill == 2

\* the boards the helpers are called on by themselves: every rank up to
\* MaxRank, every axis up to MaxExtent
MaxRank == 3
MaxExtent == 3

\* the boards dug at arbitrary coordinates
DimChoicesAny == {<<3>>, <<2, 2>>}

\* the boards constructed from arbitrary (also malformed) mine lists
DimChoicesNew == {<<1>>, <<3>>, <<2, 2>>, <<2, 3>>}

\* a Python set has no specified iteration order: the loops over a set are
\* run in ascending and in descending lexicographic order
IterationOrders == {"asc", "desc"}

----------------------------------------------------------------------------
(* Python values. *)

PyInt(k) == [int |-> k]
PyStr(s) == [str |-> s]
PyBool(b) == [bool |-> b]
PyList(xs) == [list |-> xs]
Exc(kind) == [exc |-> kind]

IsInt(v) == DOMAIN v = {"int"}
IsStr(v) == DOMAIN v = {"str"}
IsList(v) == DOMAIN v = {"list"}
IsExc(v) == DOMAIN v = {"exc"}

\* the placeholder of a field that holds nothing yet (Python's None)
None == [none |-> TRUE]

\* arr[idx] as an expression.  A list accepts -len..len-1 (negative indices
\* count from the end), anything else raises IndexError.  The only strings
\* the arrays hold are the one-character '.', on which [0] and [-1] give
\* '.' again.  An int or a bool is not subscriptable.
GetItem(arr, idx) ==
    IF IsList(arr)
    THEN LET n == Len(arr.list) IN
         IF 0 <= idx /\ idx < n THEN arr.list[idx + 1]
         ELSE IF -n <= idx /\ idx < 0 THEN arr.list[idx + n + 1]
         ELSE Exc("IndexError")
    ELSE IF IsStr(arr)
    THEN IF idx \in {0, -1} THEN arr ELSE Exc("IndexError")
    ELSE Exc("TypeError")

\* arr[idx] = value: the array after the assignment, or the exception.
\* Only a list supports item assignment.
SetItem(arr, idx, value) ==
    IF IsList(arr)
    THEN LET n == Len(arr.list) IN
         IF 0 <= idx /\ idx < n THEN PyList([arr.list EXCEPT ![idx + 1] = value])
         ELSE IF -n <= idx /\ idx < 0
         THEN PyList([arr.list EXCEPT ![idx + n + 1] = value])
         ELSE Exc("IndexError")
    ELSE Exc("TypeError")

\* v + 1: defined on ints (a str or a list plus an int raises TypeError)
PyAdd1(v) == IF IsInt(v) THEN PyInt(v.int + 1) ELSE Exc("TypeError")

----------------------------------------------------------------------------
(* Iteration over a Python set, in one of IterationOrders. *)

RECURSIVE LexLess(_, _)
LexLess(a, b) ==
    IF a = <<>> THEN b # <<>>
    ELSE IF b = <<>> THEN FALSE
    ELSE IF Head(a) # Head(b) THEN Head(a) < Head(b)
    ELSE LexLess(Tail(a), Tail(b))

RECURSIVE SetToSeq(_, _)
SetToSeq(S, ord) ==
    IF S = {} THEN <<>>
    ELSE LET x == CHOOSE y \in S : \A z \in S \ {y} :
                      IF ord = "asc" THEN LexLess(y, z) ELSE LexLess(z, y)
         IN  <<x>> \o SetToSeq(S \ {x}, ord)

----------------------------------------------------------------------------
(* N-dimensional array addressing. *)

\* slice_and_update_array: arr after arr[i0][i1]...[ik] = value, or the
\* exception raised on the way.  The nested lists are distinct objects
\* (generate_nested_list builds each by a comprehension), so the in-place
\* update of arr[idx] is the update of that one element of arr.
RECURSIVE slice_and_update_array(_, _, _)
slice_and_update_array(arr, indices, value) ==
    IF Len(indices) = 1 THEN SetItem(arr, indices[1], value)
    ELSE IF Len(indices) = 0 THEN Exc("IndexError")      \* indices[0] of ()
    ELSE LET sub == GetItem(arr, indices[1]) IN
         IF IsExc(sub) THEN sub
         ELSE LET r == slice_and_update_array(sub, Tail(indices), value) IN
              IF IsExc(r) THEN r ELSE SetItem(arr, indices[1], r)

\* slice_array: arr[i0][i1]...[ik], or the exception raised on the way
RECURSIVE slice_array(_, _)
slice_array(arr, indices) ==
    IF Len(indices) = 0 THEN arr
    ELSE LET sliced_array == GetItem(arr, indices[1]) IN
         IF IsExc(sliced_array) THEN sliced_array
         ELSE slice_array(sliced_array, Tail(indices))

\* arr with every leaf True (used by a variant of dig_nd only)
RECURSIVE UncoverAll(_)
UncoverAll(arr) ==
    IF IsList(arr)
    THEN PyList([i \in 1..Len(arr.list) |-> UncoverAll(arr.list[i])])
    ELSE PyBool(TRUE)

\* [x] * k
Repeat(x, k) == [i \in 1..k |-> x]

\* generate_nested_list_false(dimensions, current_dimension)
RECURSIVE generate_nested_list_false(_, _)
generate_nested_list_false(dims, current_dimension) ==
    IF current_dimension = Len(dims)
    THEN PyList(Repeat(PyBool(FALSE), dims[current_dimension]))
    ELSE PyList(Repeat(generate_nested_list_false(dims, current_dimension + 1),
                       dims[current_dimension]))

\* generate_nested_list(dimensions, current_dimension)
RECURSIVE generate_nested_list(_, _)
generate_nested_list(dims, current_dimension) ==
    IF current_dimension = Len(dims)
    THEN PyList(Repeat(PyInt(0), dims[current_dimension]))
    ELSE PyList(Repeat(generate_nested_list(dims, current_dimension + 1),
                       dims[current_dimension]))

----------------------------------------------------------------------------
(* Neighbours. *)

\* AxisSteps without the step down (lines 192-193 and 199-200 left out)
AxisSteps_up_only(mine, n, dims) ==
    {<<mine[n] + d>> : d \in {dd \in {1} :
                                0 <= mine[n] + dd /\ mine[n] + dd < dims[n]}}

\* the values mine[n-1] + 1 and mine[n-1] - 1 that lie inside axis n-1
\* (the two bounds tests of lines 190-193 and 197-200)
AxisSteps(mine, n, dims) ==
    {<<mine[n] + d>> : d \in {dd \in {1, -1} :
                                0 <= mine[n] + dd /\ mine[n] + dd < dims[n]}}

\* recursive_helper that varies one axis at a time: the neighbours across
\* a side, none across a corner
recursive_helper_sides_only(mine, n, dims) ==
    {c \in {[mine EXCEPT ![i] = mine[i] + d] : i \in 1..n, d \in {1, -1}} :
         \A j \in 1..n : 0 <= c[j] /\ c[j] < dims[j]}

\* recursive_helper(mine, n, dimensions), for a mine of at least n
\* components (on a shorter one, mine[n - 1] raises IndexError: the callers
\* test that before they use this).  The first n components of mine are
\* varied by -1, 0, +1; steps that leave an axis are dropped; the offsets of
\* an axis are appended to every combination of the axes before it; a
\* combination equal to mine itself is dropped.
RECURSIVE recursive_helper(_, _, _)
recursive_helper(mine, n, dims) ==
    IF n = 1
    THEN AxisSteps(mine, 1, dims)
    ELSE LET new_set == AxisSteps(mine, n, dims) \cup {<<mine[n]>>}
             newer_set == recursive_helper(mine, n - 1, dims)
                              \cup {SubSeq(mine, 1, n - 1)}
         IN  {neighbor \o new_neighbor :
                  neighbor \in newer_set, new_neighbor \in new_set} \ {mine}

----------------------------------------------------------------------------
(* Board builder. *)

\* IncrementNeighbors with line 225 storing 1 in place of the count plus 1
RECURSIVE IncrementNeighbors_stores_one(_, _)
IncrementNeighbors_stores_one(brd, neighbors) ==
    IF neighbors = <<>> THEN brd
    ELSE LET n_1 == Head(neighbors)
             v == slice_array(brd, n_1)
         IN  IF IsExc(v) THEN v
             ELSE IF v # PyStr(".")
             THEN LET b2 == slice_and_update_array(brd, n_1, PyInt(1)) IN
                  IF IsExc(b2) THEN b2
                  ELSE IncrementNeighbors_stores_one(b2, Tail(neighbors))
             ELSE IncrementNeighbors_stores_one(brd, Tail(neighbors))

\* the inner loop of increment_squares_around_mine_nd (lines 223-225) over
\* the neighbours of one mine, in the order given
RECURSIVE IncrementNeighbors(_, _)
IncrementNeighbors(brd, neighbors) ==
    IF neighbors = <<>> THEN brd
    ELSE LET n_1 == Head(neighbors)
             v == slice_array(brd, n_1)
         IN  IF IsExc(v) THEN v
             ELSE IF v # PyStr(".")
             THEN LET s == PyAdd1(v) IN
                  IF IsExc(s) THEN s
                  ELSE LET b2 == slice_and_update_array(brd, n_1, s) IN
                       IF IsExc(b2) THEN b2
                       ELSE IncrementNeighbors(b2, Tail(neighbors))
             ELSE IncrementNeighbors(brd, Tail(neighbors))

\* increment_squares_around_mine_nd(board, n, dimensions, mines): the board
\* after the loop over the mines, or the exception that ended it
\* increment_squares_around_mine_nd with "return board" inside the loop
\* over the mines: only the squares around the first mine are incremented
increment_squares_returns_early(brd, n, dims, mns, ord) ==
    IF mns = <<>> THEN brd
    ELSE LET mine == Head(mns) IN
         IF Len(mine) < n THEN Exc("IndexError")
         ELSE IncrementNeighbors(
                  brd, SetToSeq(recursive_helper(mine, n, dims), ord))

RECURSIVE increment_squares_around_mine_nd(_, _, _, _, _)
increment_squares_around_mine_nd(brd, n, dims, mns, ord) ==
    IF mns = <<>> THEN brd
    ELSE LET mine == Head(mns) IN
         IF Len(mine) < n THEN Exc("IndexError")       \* mine[n - 1]
         ELSE LET b2 == IncrementNeighbors(
                            brd, SetToSeq(recursive_helper(mine, n, dims), ord))
              IN  IF IsExc(b2) THEN b2
                  ELSE increment_squares_around_mine_nd(b2, n, dims, Tail(mns), ord)

\* the loop of lines 334-335: a mine marker written at every mine
RECURSIVE PlaceMines(_, _)
PlaceMines(brd, mns) ==
    IF mns = <<>> THEN brd
    ELSE LET b2 == slice_and_update_array(brd, Head(mns), PyStr(".")) IN
         IF IsExc(b2) THEN b2 ELSE PlaceMines(b2, Tail(mns))

\* new_game_nd(dimensions, mines): the game dictionary, or the exception
new_game_nd(dims, mns, ord) ==
    LET vis == generate_nested_list_false(dims, 1)
        placed == PlaceMines(generate_nested_list(dims, 1), mns)
    IN  IF IsExc(placed) THEN placed
        ELSE LET brd == increment_squares_around_mine_nd(
                            placed, Len(dims), dims, mns, ord)
             IN  IF IsExc(brd) THEN brd
                 ELSE [dimensions |-> dims, board |-> brd,
                       visible |-> vis, state |-> "ongoing"]

----------------------------------------------------------------------------
(* Coordinate enumeration. *)

\* generate_coordinates(dimensions, current_coordinate, depth): the
\* coordinates the generator yields, in the order it yields them.  Axis
\* depth takes the values of range(dimensions[depth]) from `i` on.
\* GenerateFrom with current_coordinate.insert(0, i) for append(i): the
\* axis chosen last comes first in the coordinate
RECURSIVE GenerateFrom_prepends(_, _, _, _)
GenerateFrom_prepends(dims, current_coordinate, depth, i) ==
    IF depth = Len(dims) THEN <<current_coordinate>>
    ELSE IF i >= dims[depth + 1] THEN <<>>
    ELSE GenerateFrom_prepends(dims, <<i>> \o current_coordinate, depth + 1, 0)
             \o GenerateFrom_prepends(dims, current_coordinate, depth, i + 1)

\* GenerateFrom with range(dimensions[depth] - 1) on the first axis: the
\* last index of that axis is never reached
RECURSIVE GenerateFrom_stops_short(_, _, _, _)
GenerateFrom_stops_short(dims, current_coordinate, depth, i) ==
    IF depth = Len(dims) THEN <<current_coordinate>>
    ELSE IF i >= dims[depth + 1] - (IF depth = 0 THEN 1 ELSE 0) THEN <<>>
    ELSE GenerateFrom_stops_short(dims, Append(current_coordinate, i), depth + 1, 0)
             \o GenerateFrom_stops_short(dims, current_coordinate, depth, i + 1)

RECURSIVE GenerateFrom(_, _, _, _)
GenerateFrom(dims, current_coordinate, depth, i) ==
    IF depth = Len(dims) THEN <<current_coordinate>>
    ELSE IF i >= dims[depth + 1] THEN <<>>
    ELSE GenerateFrom(dims, Append(current_coordinate, i), depth + 1, 0)
             \o GenerateFrom(dims, current_coordinate, depth, i + 1)

generate_coordinates(dims) == GenerateFrom(dims, <<>>, 0, 0)

----------------------------------------------------------------------------
(* Reveal engine. *)

\* revealed_squares(game, coordinates, visited): the list returned and the
\* visited set as the call leaves it (the set is the caller's, mutated in
\* place), or the exception raised.  ExploreNeighbors is the loop of lines
\* 375-378 over potential_neighbors, in the order given.
RECURSIVE revealed_squares(_, _, _, _)
RECURSIVE ExploreNeighbors(_, _, _, _)
\* ExploreNeighbors that lists each unvisited neighbour without exploring
\* it (lines 377-378 as final_list.append(neighbor); visited.add(neighbor))
RECURSIVE ExploreNeighbors_one_level(_, _, _, _)
ExploreNeighbors_one_level(game, todo, acc, ord) ==
    IF todo = <<>> THEN acc
    ELSE LET neighbor == Head(todo) IN
         IF neighbor \in acc.visited
         THEN ExploreNeighbors_one_level(game, Tail(todo), acc, ord)
         ELSE ExploreNeighbors_one_level(
                  game, Tail(todo),
                  [final_list |-> Append(acc.final_list, neighbor),
                   visited |-> acc.visited \cup {neighbor}],
                  ord)

\* ExploreNeighbors that returns after the first neighbor it explores
\* ("return final_list" inside the loop of lines 375-378)
RECURSIVE ExploreNeighbors_first_only(_, _, _, _)
ExploreNeighbors_first_only(game, todo, acc, ord) ==
    IF todo = <<>> THEN acc
    ELSE LET neighbor == Head(todo) IN
         IF neighbor \in acc.visited
         THEN ExploreNeighbors_first_only(game, Tail(todo), acc, ord)
         ELSE LET r == revealed_squares(game, neighbor, acc.visited, ord) IN
              IF IsExc(r) THEN r
              ELSE [final_list |-> acc.final_list \o r.final_list,
                    visited |-> r.visited \cup {neighbor}]

\* ExploreNeighbors where each recursive call works on its own copy of
\* visited (revealed_squares(game, neighbor, set(visited))): what the call
\* visited is forgotten when it returns
RECURSIVE ExploreNeighbors_forgets(_, _, _, _)
ExploreNeighbors_forgets(game, todo, acc, ord) ==
    IF todo = <<>> THEN acc
    ELSE LET neighbor == Head(todo) IN
         IF neighbor \in acc.visited
         THEN ExploreNeighbors_forgets(game, Tail(todo), acc, ord)
         ELSE LET r == revealed_squares(game, neighbor, acc.visited, ord) IN
              IF IsExc(r) THEN r
              ELSE ExploreNeighbors_forgets(
                       game, Tail(todo),
                       [final_list |-> acc.final_list \o r.final_list,
                        visited |-> acc.visited \cup {neighbor}],
                       ord)

revealed_squares(game, coordinates, visited, ord) ==
    LET here == slice_array(game.board, coordinates) IN
    IF IsExc(here) THEN here
    ELSE IF here # PyInt(0)
    THEN [final_list |-> <<coordinates>>, visited |-> visited \cup {coordinates}]
    ELSE IF Len(coordinates) < Len(game.dimensions)
    THEN Exc("IndexError")                       \* mine[n - 1] in recursive_helper
    ELSE LET potential_neighbors ==
                 recursive_helper(coordinates, Len(game.dimensions), game.dimensions)
         IN  ExploreNeighbors(game, SetToSeq(potential_neighbors, ord),
                              [final_list |-> <<coordinates>>,
                               visited |-> visited \cup {coordinates}],
                              ord)

ExploreNeighbors(game, todo, acc, ord) ==
    IF todo = <<>> THEN acc
    ELSE LET neighbor == Head(todo) IN
         IF neighbor \in acc.visited
         THEN ExploreNeighbors(game, Tail(todo), acc, ord)
         ELSE LET r == revealed_squares(game, neighbor, acc.visited, ord) IN
              IF IsExc(r) THEN r
              ELSE ExploreNeighbors(
                       game, Tail(todo),
                       [final_list |-> acc.final_list \o r.final_list,
                        visited |-> r.visited \cup {neighbor}],
                       ord)

\* RevealTiles without the test of line 452: every tile is counted
RECURSIVE RevealTiles_counts_all(_, _)
RevealTiles_counts_all(tiles, acc) ==
    IF tiles = <<>> THEN acc
    ELSE RevealTiles_counts_all(
             Tail(tiles),
             [visible |-> slice_and_update_array(acc.visible, Head(tiles), PyBool(TRUE)),
              revealed |-> acc.revealed + 1])

\* RevealTiles with line 453 written as visible[tile] = not visible[tile],
\* in place of the test of line 452
RECURSIVE RevealTiles_toggles(_, _)
RevealTiles_toggles(tiles, acc) ==
    IF tiles = <<>> THEN acc
    ELSE LET tile == Head(tiles)
             was == slice_array(acc.visible, tile)
         IN  RevealTiles_toggles(
                 Tail(tiles),
                 [visible |-> slice_and_update_array(acc.visible, tile,
                                                     PyBool(was = PyBool(FALSE))),
                  revealed |-> acc.revealed + (IF was = PyBool(FALSE) THEN 1 ELSE 0)])

\* the loop of lines 451-454 over the tiles revealed_squares returned: the
\* visible array and the count of tiles whose entry was the object False.
\* Every tile was read from game["board"], which has the shape of
\* game["visible"], so the reads here do not raise.
RECURSIVE RevealTiles(_, _)
RevealTiles(tiles, acc) ==
    IF tiles = <<>> THEN acc
    ELSE LET tile == Head(tiles) IN
         IF slice_array(acc.visible, tile) = PyBool(FALSE)
         THEN RevealTiles(Tail(tiles),
                          [visible |-> slice_and_update_array(acc.visible, tile, PyBool(TRUE)),
                           revealed |-> acc.revealed + 1])
         ELSE RevealTiles(Tail(tiles), acc)

\* CountHiddenSafe without the test of line 460: hidden mines are counted
RECURSIVE CountHidden_with_mines(_, _, _)
CountHidden_with_mines(brd, vis, coords) ==
    IF coords = <<>> THEN 0
    ELSE (IF slice_array(vis, Head(coords)) = PyBool(FALSE) THEN 1 ELSE 0)
         + CountHidden_with_mines(brd, vis, Tail(coords))

\* the loop of lines 456-462: the number of coordinates that are not
\* visible and hold no mine
RECURSIVE CountHiddenSafe(_, _, _)
CountHiddenSafe(brd, vis, coords) ==
    IF coords = <<>> THEN 0
    ELSE (IF /\ slice_array(vis, Head(coords)) = PyBool(FALSE)
             /\ slice_array(brd, Head(coords)) # PyStr(".")
          THEN 1 ELSE 0)
         + CountHiddenSafe(brd, vis, Tail(coords))

\* what a call that returns, and one that raises, leave behind
Returned(game, value) == [game |-> game, outcome |-> "returned", ret |-> value]
Raised(game, e) == [game |-> game, outcome |-> e.exc, ret |-> 0]

\* HitMine that uncovers the whole board on defeat
HitMine_uncovers_all(game, coordinates) ==
    LET vis == slice_and_update_array(game.visible, coordinates, PyBool(TRUE)) IN
    IF IsExc(vis) THEN Raised(game, vis)
    ELSE Returned([game EXCEPT !.visible = UncoverAll(game.visible),
                               !.state = "defeat"], 1)

\* HitMine that marks the dug mine in the board instead of in visible
HitMine_marks_board(game, coordinates) ==
    LET brd == slice_and_update_array(game.board, coordinates, PyBool(TRUE)) IN
    IF IsExc(brd) THEN Raised(game, brd)
    ELSE Returned([game EXCEPT !.board = brd, !.state = "defeat"], 1)

\* HitMine without line 447: the state is left as it was
HitMine_keeps_state(game, coordinates) ==
    LET vis == slice_and_update_array(game.visible, coordinates, PyBool(TRUE)) IN
    IF IsExc(vis) THEN Raised(game, vis)
    ELSE Returned([game EXCEPT !.visible = vis], 1)

\* lines 446-448: the mine at coordinates is dug
HitMine(game, coordinates) ==
    LET vis == slice_and_update_array(game.visible, coordinates, PyBool(TRUE)) IN
    IF IsExc(vis) THEN Raised(game, vis)
    ELSE Returned([game EXCEPT !.visible = vis, !.state = "defeat"], 1)

\* lines 450-468: the cascade from a coordinate that holds no mine, and
\* the test for victory
DigSafe(game, coordinates, ord) ==
    LET tiles == revealed_squares(game, coordinates, {}, ord) IN
    IF IsExc(tiles) THEN Raised(game, tiles)
    ELSE LET dug == RevealTiles(tiles.final_list,
                                [visible |-> game.visible, revealed |-> 0])
             counter == CountHiddenSafe(game.board, dug.visible,
                                        generate_coordinates(game.dimensions))
         IN  IF counter # 0
             THEN Returned([game EXCEPT !.visible = dug.visible, !.state = "ongoing"],
                           dug.revealed)
             ELSE Returned([game EXCEPT !.visible = dug.visible, !.state = "victory"],
                           dug.revealed)

\* lines 445-468: dig_nd in a game that is not over
DigOngoing(game, coordinates, ord) ==
    LET here == slice_array(game.board, coordinates) IN
    IF IsExc(here) THEN Raised(game, here)
    ELSE IF here = PyStr(".") THEN HitMine(game, coordinates)
    ELSE DigSafe(game, coordinates, ord)

\* dig_nd without the guard of lines 441-443
dig_nd_digs_on(game, coordinates, ord) == DigOngoing(game, coordinates, ord)

\* dig_nd(game, coordinates): the game after the call and the value
\* returned, or the exception raised (ret then holds no value)
dig_nd(game, coordinates, ord) ==
    IF game.state = "defeat" \/ game.state = "victory"
    THEN Returned([game EXCEPT !.state = game.state], 0)
    ELSE DigOngoing(game, coordinates, ord)

----------------------------------------------------------------------------
(* Rendering. *)

\* the decimal digits, and str(n) of an int: its decimal numeral
Digits == <<"0", "1", "2", "3", "4", "5", "6", "7", "8", "9">>

RECURSIVE Decimal(_)
Decimal(n) ==
    IF n < 0 THEN "-" \o Decimal(-n)
    ELSE IF n < 10 THEN Digits[n + 1]
    ELSE Decimal(n \div 10) \o Digits[(n % 10) + 1]

\* str(i_board), called on the int cells of the board only (the '.' cell is
\* taken by the branch before it)
str(v) == PyStr(Decimal(v.int))

\* RenderSymbol without the else branch: a cell with no mine around it is
\* shown as its number
RenderSymbol_prints_zero(i_board) ==
    IF i_board = PyStr(".") THEN PyStr(".") ELSE str(i_board)

\* the if/elif/else on the board cell (lines 509-514 and 520-525)
RenderSymbol(i_board) ==
    IF i_board = PyStr(".") THEN PyStr(".")
    ELSE IF i_board # PyInt(0) THEN str(i_board)
    ELSE PyStr(" ")

\* One pass of either for loop.  objects holds the arrays the function can
\* reach, each under the name of the object: the two arrays of the game and
\* the array built at line 505; new_board names the one that the variable
\* new_board is bound to, which is the one written.
RenderCell(objects, new_board, i, all_visible) ==
    IF all_visible
    THEN LET i_board == slice_array(objects.board, i) IN
         [objects EXCEPT ![new_board] =
             slice_and_update_array(@, i, RenderSymbol(i_board))]
    ELSE LET i_val == slice_array(objects.visible, i)
             i_board == slice_array(objects.board, i) IN
         IF i_val = PyBool(TRUE)
         THEN [objects EXCEPT ![new_board] =
                  slice_and_update_array(@, i, RenderSymbol(i_board))]
         ELSE [objects EXCEPT ![new_board] =
                  slice_and_update_array(@, i, PyStr("_"))]

RECURSIVE RenderCells(_, _, _, _)
RenderCells(objects, new_board, coordinates, all_visible) ==
    IF coordinates = <<>> THEN objects
    ELSE RenderCells(RenderCell(objects, new_board, Head(coordinates), all_visible),
                     new_board, Tail(coordinates), all_visible)

\* the body of render_nd once new_board is bound: the loops and the return
\* of the object new_board names
RenderInto(game, objects, new_board, all_visible) ==
    LET coordinates == generate_coordinates(game.dimensions)
        done == RenderCells(objects, new_board, coordinates, all_visible)
    IN  [game |-> [game EXCEPT !.board = done.board, !.visible = done.visible],
         ref |-> new_board,
         value |-> done[new_board]]

\* the arrays render_nd can reach
RenderObjects(game) ==
    [board |-> game.board, visible |-> game.visible,
     fresh |-> generate_nested_list(game.dimensions, 1)]

\* render_nd with new_board = game["visible"]: no array is built, the
\* symbols are written into the game
render_nd_reuses_visible(game, all_visible) ==
    RenderInto(game, RenderObjects(game), "visible", all_visible)

\* render_nd(game, all_visible): new_board is the array built at line 505
render_nd(game, all_visible) ==
    RenderInto(game, RenderObjects(game), "fresh", all_visible)

----------------------------------------------------------------------------
(* The inputs. *)

\* the product of the axes: every coordinate inside dims
RECURSIVE Coords(_)
Coords(dims) ==
    IF dims = <<>> THEN {<<>>}
    ELSE {<<i>> \o c : i \in 0..(Head(dims) - 1), c \in Coords(Tail(dims))}

\* lists of pairwise distinct mines inside dims, of at most k mines, in
\* ascending and in descending order
ValidMineLists(dims, k) ==
    {SetToSeq(S, ord) : S \in {T \in SUBSET Coords(dims) : Cardinality(T) <= k},
                        ord \in {"asc", "desc"}}

\* a mine as new_game_nd may meet it: every component inside its axis, one
\* or more steps below 0 or one step above the axis, or a rank other than
\* that of dims
RECURSIVE AnyRankCoords(_)
AnyRankCoords(dims) ==
    IF dims = <<>> THEN {<<>>}
    ELSE {<<i>> \o c : i \in (0..Head(dims)) \cup {-1, -Head(dims) - 1},
                       c \in AnyRankCoords(Tail(dims))}

MineCandidates(dims) ==
    AnyRankCoords(dims)
        \cup {SubSeq(c, 1, Len(dims) - 1) : c \in Coords(dims)}
        \cup {Append(c, 0) : c \in Coords(dims)}

RECURSIVE SeqsUpTo(_, _)
SeqsUpTo(S, k) ==
    IF k = 0 THEN {<<>>}
    ELSE LET shorter == SeqsUpTo(S, k - 1) IN
         shorter \cup {Append(q, x) : q \in shorter, x \in S}

----------------------------------------------------------------------------
(* The state machine. *)

NoCall == [op |-> "none", coordinates |-> <<>>, outcome |-> "none", ret |-> 0,
           state_before |-> "none"]

\* the caller holds no object yet
NoResult == [ref |-> "none", value |-> None]

Unbuilt ==
    /\ pc = "new"
    /\ board = None
    /\ visible = None
    /\ state = "none"
    /\ call = NoCall
    /\ result = NoResult

\* game play: new_game_nd is handed pairwise distinct mines inside the board
Init ==
    /\ dimensions \in DimChoices
    /\ mines \in ValidMineLists(dimensions, MaxMines)
    /\ Unbuilt

\* construction: new_game_nd is handed any list of mines
InitNew ==
    /\ dimensions \in DimChoicesNew
    /\ mines \in SeqsUpTo(MineCandidates(dimensions), MaxMinesNew)
    /\ Unbuilt

\* the game of the 2-D example: new_game_2d(2, 4, [(0, 0), (1, 0), (1, 1)])
\* (doctest of lines 40-48)
InitExample ==
    /\ dimensions = <<2, 4>>
    /\ mines = <<<<0, 0>>, <<1, 0>>, <<1, 1>>>>
    /\ Unbuilt

\* game = new_game_nd(dimensions, mines)
NewGame ==
    /\ pc = "new"
    /\ \E ord \in IterationOrders :
         LET g == new_game_nd(dimensions, mines, ord) IN
         IF IsExc(g)
         THEN /\ pc' = "raised"
              /\ call' = [op |-> "new_game_nd", coordinates |-> <<>>,
                          outcome |-> g.exc, ret |-> 0, state_before |-> state]
              /\ UNCHANGED <<board, visible, state, dimensions>>
         ELSE /\ pc' = "game"
              /\ dimensions' = g.dimensions
              /\ board' = g.board
              /\ visible' = g.visible
              /\ state' = g.state
              /\ call' = [op |-> "new_game_nd", coordinates |-> <<>>,
                          outcome |-> "returned", ret |-> 0, state_before |-> state]
    /\ UNCHANGED <<mines, result>>

Game == [dimensions |-> dimensions, board |-> board, visible |-> visible,
         state |-> state]

\* what the caller holds after a call has worked on the game: an object of
\* the game itself (one of its arrays) has the value the game now has, any
\* other object is as it was
Held(res, game) ==
    IF res.ref \in {"board", "visible"}
    THEN [res EXCEPT !.value = game[res.ref]]
    ELSE res

\* dig_nd(game, coordinates)
Dig(coordinates) ==
    /\ pc = "game"
    /\ \E ord \in IterationOrders :
         LET r == dig_nd(Game, coordinates, ord) IN
         /\ dimensions' = r.game.dimensions
         /\ board' = r.game.board
         /\ visible' = r.game.visible
         /\ state' = r.game.state
         /\ call' = [op |-> "dig_nd", coordinates |-> coordinates,
                     outcome |-> r.outcome, ret |-> r.ret, state_before |-> state]
         /\ result' = Held(result, r.game)
    /\ UNCHANGED <<pc, mines>>

\* a dig at a coordinate inside the board
DigInRange == \E c \in Coords(dimensions) : Dig(c)

Next == NewGame \/ DigInRange

Spec == Init /\ [][Next]_vars

SpecExample == InitExample /\ [][Next]_vars

\* game play where dig_nd is handed any coordinate: inside the board, off an
\* axis on either side, or of another rank
InitAny ==
    /\ dimensions \in DimChoicesAny
    /\ mines \in ValidMineLists(dimensions, MaxMinesAny)
    /\ Unbuilt

DigAnywhere == \E c \in MineCandidates(dimensions) : Dig(c)

NextAny == NewGame \/ DigAnywhere

SpecAny == InitAny /\ [][NextAny]_vars

NextNew == NewGame

SpecNew == InitNew /\ [][NextNew]_vars

\* a board where a cell has ten mines around it: every cell of the 2x2x3
\* board is a mine but (0, 0, 1) and (1, 1, 1)
CrowdedMines ==
    SetToSeq(Coords(<<2, 2, 3>>) \ {<<0, 0, 1>>, <<1, 1, 1>>}, "asc")

\* the games that are rendered
InitRender ==
    /\ \/ /\ dimensions \in DimChoicesAny
          /\ mines \in ValidMineLists(dimensions, MaxMinesRender)
       \/ /\ dimensions = <<2, 2, 3>>
          /\ mines = CrowdedMines
    /\ Unbuilt

\* rendering = render_nd(game, all_visible)
Render(all_visible) ==
    /\ pc = "game"
    /\ LET r == render_nd(Game, all_visible) IN
         /\ dimensions' = r.game.dimensions
         /\ board' = r.game.board
         /\ visible' = r.game.visible
         /\ state' = r.game.state
         /\ call' = [op |-> "render_nd", coordinates |-> <<>>,
                     outcome |-> "returned", ret |-> 0, state_before |-> state,
                     all_visible |-> all_visible]
         /\ result' = [ref |-> r.ref, value |-> r.value]
    /\ UNCHANGED <<pc, mines>>

RenderGame == \E all_visible \in BOOLEAN : Render(all_visible)

NextRender == NewGame \/ DigInRange \/ RenderGame

SpecRender == InitRender /\ [][NextRender]_vars

\* the games the cascade is run on by itself
InitFill ==
    /\ dimensions \in DimChoicesFill
    /\ mines \in ValidMineLists(dimensions, MaxMinesFill)
    /\ Unbuilt

\* tiles = revealed_squares(game, coordinates, set()), the call of line 450
\* (dig_nd makes it when the cell at coordinates is not a mine)
Reveal(coordinates) ==
    /\ pc = "game"
    /\ slice_array(board, coordinates) # PyStr(".")
    /\ \E ord \in IterationOrders :
         LET tiles == revealed_squares(Game, coordinates, {}, ord) IN
         /\ call' = [op |-> "revealed_squares", coordinates |-> coordinates,
                     outcome |-> IF IsExc(tiles) THEN tiles.exc ELSE "returned",
                     ret |-> 0, state_before |-> state]
         /\ result' = [ref |-> "fresh", value |-> tiles]
    /\ UNCHANGED <<pc, dimensions, mines, board, visible, state>>

RevealFrom == \E c \in Coords(dimensions) : Reveal(c)

NextFill == NewGame \/ RevealFrom

SpecFill == InitFill /\ [][NextFill]_vars

\* the dimensions of rank 1 to k with axes of 1 to MaxExtent
RECURSIVE Boxes(_)
Boxes(k) ==
    IF k = 0 THEN {}
    ELSE {<<d>> : d \in 1..MaxExtent}
            \cup {Append(b, d) : b \in Boxes(k - 1), d \in 1..MaxExtent}

\* the helpers called by themselves, on the dimensions of a board
InitHelpers ==
    /\ dimensions \in Boxes(MaxRank)
    /\ mines = <<>>
    /\ Unbuilt

\* neighbors = recursive_helper(coordinates, len(dimensions), dimensions)
Neighbors(coordinates) ==
    /\ pc = "new"
    /\ call' = [op |-> "recursive_helper", coordinates |-> coordinates,
                outcome |-> "returned", ret |-> 0, state_before |-> state]
    /\ result' = [ref |-> "fresh",
                  value |-> recursive_helper(coordinates, Len(dimensions),
                                             dimensions)]
    /\ UNCHANGED <<pc, dimensions, mines, board, visible, state>>

NeighborsOfCell == \E c \in Coords(dimensions) : Neighbors(c)

\* list(generate_coordinates(dimensions)): the generator run to its end;
\* ret numbers the invocation (the first, or a later one)
Enumerate ==
    /\ pc = "new"
    /\ call' = [op |-> "generate_coordinates", coordinates |-> <<>>,
                outcome |-> "returned",
                ret |-> IF call.op = "generate_coordinates" THEN 2 ELSE 1,
                state_before |-> state]
    /\ result' = [ref |-> "fresh", value |-> generate_coordinates(dimensions)]
    /\ UNCHANGED <<pc, dimensions, mines, board, visible, state>>

NextHelpers == NeighborsOfCell \/ Enumerate

SpecHelpers == InitHelpers /\ [][NextHelpers]_vars

----------------------------------------------------------------------------
(* What the claims speak of, stated without the code's own helpers. *)

\* the cells of the board
Cells == Coords(dimensions)

\* the cell of a nested array at a coordinate inside it
RECURSIVE Lookup(_, _)
Lookup(arr, c) ==
    IF c = <<>> THEN arr ELSE Lookup(arr.list[Head(c) + 1], Tail(c))

\* the coordinates new_game_nd was given as mines
MineSet == {mines[i] : i \in 1..Len(mines)}

VisibleAt(c) == Lookup(visible, c) = PyBool(TRUE)
VisibleSet == {c \in Cells : VisibleAt(c)}
SafeCells == Cells \ MineSet

\* the last call was dig_nd
Dug == pc = "game" /\ call.op = "dig_nd"

\* this step is a call of dig_nd
DigStep == pc = "game" /\ pc' = "game" /\ call'.op = "dig_nd"

----------------------------------------------------------------------------
(* C1: terminal absorption.  In a game whose state is 'defeat' or          *)
(* 'victory', every call of dig_nd returns 0 and leaves board, visible and *)
(* state as they were; the state of a game changes only from 'ongoing' to  *)
(* 'defeat' or from 'ongoing' to 'victory'.                                *)
C1_TerminalAbsorption ==
    [][DigStep =>
         /\ state \in {"defeat", "victory"} =>
               /\ call'.outcome = "returned"
               /\ call'.ret = 0
               /\ board' = board
               /\ visible' = visible
               /\ state' = state
         /\ state' # state =>
               state = "ongoing" /\ state' \in {"defeat", "victory"}]_vars

\* a dig in a won game, at a coordinate off the board, and the return of 0
C1_Witness ==
    /\ Dug
    /\ call.state_before = "victory"
    /\ state = "victory"
    /\ call.coordinates \notin Cells
    /\ call.outcome = "returned"
    /\ call.ret = 0

(* C2: monotonic visibility.  A coordinate that is visible stays visible   *)
(* through every later call of dig_nd.                                     *)
C2_MonotonicVisibility ==
    [][DigStep => \A c \in Cells : VisibleAt(c) => VisibleAt(c)']_vars

\* a dig that revealed cells in a game where other cells were visible
\* already, and still are
C2_Witness ==
    /\ Dug
    /\ call.ret >= 1
    /\ Cardinality(VisibleSet) > call.ret

(* C3: defeat invariant.  In every game built from pairwise distinct mines *)
(* inside the board and dug at coordinates inside the board, the state is  *)
(* 'defeat' if and only if a mine cell is visible.                         *)
C3_DefeatIffMineVisible ==
    pc = "game" => (state = "defeat" <=> \E c \in MineSet : VisibleAt(c))

\* a lost game: a mine is visible, and so are safe cells dug before it
C3_Witness ==
    /\ Dug
    /\ state = "defeat"
    /\ \E c \in MineSet : VisibleAt(c)
    /\ \E c \in SafeCells : VisibleAt(c)

(* C4: victory invariant, as claimed.  In every game, the initial state    *)
(* and boards where every cell is a mine included, the state is 'victory'  *)
(* exactly when every non-mine cell is visible and no mine cell is.        *)
C4_VictoryIff_AsClaimed ==
    pc = "game" =>
        (state = "victory" <=>
            /\ \A c \in SafeCells : VisibleAt(c)
            /\ \A c \in MineSet : ~VisibleAt(c))

(* C4, amended: the state is 'victory' exactly when every non-mine cell is *)
(* visible, no mine cell is, and the board has a non-mine cell.  (A board  *)
(* of mines only is 'ongoing' when built and 'defeat' after its first      *)
(* dig.)                                                                   *)
C4_VictoryIff ==
    pc = "game" =>
        (state = "victory" <=>
            /\ \A c \in SafeCells : VisibleAt(c)
            /\ \A c \in MineSet : ~VisibleAt(c)
            /\ SafeCells # {})

\* a game with mines, won by a dig that revealed its last hidden safe cells
C4_Witness ==
    /\ Dug
    /\ call.state_before = "ongoing"
    /\ state = "victory"
    /\ call.ret >= 1
    /\ MineSet # {}
    /\ \A c \in SafeCells : VisibleAt(c)
    /\ \A c \in MineSet : ~VisibleAt(c)

(* C5: mine hit.  In an ongoing game, dig_nd on a coordinate that holds a  *)
(* mine makes that one coordinate visible and no other, sets the state to  *)
(* 'defeat' and returns 1.                                                 *)
C5_MineHit ==
    [][(DigStep /\ state = "ongoing" /\ call'.coordinates \in MineSet) =>
         /\ call'.coordinates \notin VisibleSet
         /\ VisibleSet' = VisibleSet \cup {call'.coordinates}
         /\ state' = "defeat"
         /\ call'.outcome = "returned"
         /\ call'.ret = 1]_vars

\* a mine dug in an ongoing game that had hidden safe cells and visible ones
C5_Witness ==
    /\ Dug
    /\ call.state_before = "ongoing"
    /\ call.coordinates \in MineSet
    /\ state = "defeat"
    /\ call.ret = 1
    /\ \E c \in SafeCells : VisibleAt(c)
    /\ \E c \in SafeCells : ~VisibleAt(c)

\* a and b differ by at most 1 on every axis, and differ
Adjacent(a, b) ==
    /\ a # b
    /\ \A i \in 1..Len(a) : a[i] - b[i] \in {-1, 0, 1}

\* the least set that holds F and the neighbours of its cells of value 0
RECURSIVE FillClosure(_)
FillClosure(F) ==
    LET more == {c \in Cells \ F :
                    \E z \in F : Lookup(board, z) = PyInt(0) /\ Adjacent(z, c)}
    IN  IF more = {} THEN F ELSE FillClosure(F \cup more)

\* F(c): c, and every cell reached from c by neighbour hops through cells
\* of value 0
Fill(c) == FillClosure({c})

(* C6: flood-fill correctness.  In an ongoing game, after dig_nd on a      *)
(* coordinate c that holds no mine, the visible cells are those visible    *)
(* before together with exactly the fill set F(c).                         *)
C6_FloodFill ==
    [][(DigStep /\ state = "ongoing" /\ call'.coordinates \in SafeCells) =>
         /\ call'.outcome = "returned"
         /\ VisibleSet' = VisibleSet \cup Fill(call'.coordinates)]_vars

\* a cascade of more than one hop that leaves safe cells hidden: a cell of
\* the fill is no neighbour of the dug cell, and the game goes on
C6_Witness ==
    /\ Dug
    /\ call.state_before = "ongoing"
    /\ call.coordinates \in SafeCells
    /\ state = "ongoing"
    /\ \E c \in Fill(call.coordinates) :
          c # call.coordinates /\ ~Adjacent(c, call.coordinates)
    /\ Fill(call.coordinates) \subseteq VisibleSet

(* C7: return-value accounting.  Every call of dig_nd, in a finished game, *)
(* on a mine or on a safe cell, returns the number of coordinates whose    *)
(* visible entry went from False to True in that call.                     *)
C7_ReturnCountsNewlyVisible ==
    [][DigStep =>
         /\ call'.outcome = "returned"
         /\ call'.ret = Cardinality(VisibleSet' \ VisibleSet)]_vars

\* a cascade over a fill set part of which was visible already: fewer
\* cells are counted than the fill set holds
C7_Witness ==
    /\ Dug
    /\ call.state_before = "ongoing"
    /\ call.coordinates \in SafeCells
    /\ call.ret >= 1
    /\ Cardinality(Fill(call.coordinates)) > call.ret

\* every mine has the rank of dims and lies inside it, and no coordinate
\* is listed twice
WellFormed(dims, mns) ==
    /\ \A i \in 1..Len(mns) :
          /\ Len(mns[i]) = Len(dims)
          /\ \A k \in 1..Len(mns[i]) : 0 <= mns[i][k] /\ mns[i][k] < dims[k]
    /\ \A i, j \in 1..Len(mns) : i # j => mns[i] # mns[j]

(* C8: count correctness.  For pairwise distinct mines inside the board,   *)
(* the board of new_game_nd holds the mine marker at exactly the mine      *)
(* coordinates and, at every other cell, the number of its neighbours      *)
(* (differing by at most 1 on every axis) that are mines.                  *)
C8_CountCorrectness ==
    (pc = "game" /\ WellFormed(dimensions, mines)) =>
        \A c \in Cells :
            IF c \in MineSet
            THEN Lookup(board, c) = PyStr(".")
            ELSE Lookup(board, c) =
                     PyInt(Cardinality({m \in MineSet : Adjacent(m, c)}))

\* a board just built with a cell next to several mines, a cell next to one
\* and a cell next to none
C8_Witness ==
    /\ pc = "game"
    /\ call.op = "new_game_nd"
    /\ WellFormed(dimensions, mines)
    /\ \E c \in SafeCells : Cardinality({m \in MineSet : Adjacent(m, c)}) >= 2
    /\ \E c \in SafeCells : Cardinality({m \in MineSet : Adjacent(m, c)}) = 1
    /\ \E c \in SafeCells : Cardinality({m \in MineSet : Adjacent(m, c)}) = 0

\* [[F, F, T, T], [F, F, T, T]]
ExampleVisible ==
    PyList(<<PyList(<<PyBool(FALSE), PyBool(FALSE), PyBool(TRUE), PyBool(TRUE)>>),
             PyList(<<PyBool(FALSE), PyBool(FALSE), PyBool(TRUE), PyBool(TRUE)>>)>>)

\* the step of the example: dig (0, 3) in the example game, every cell hidden
ExampleDigStep ==
    /\ DigStep
    /\ dimensions = <<2, 4>>
    /\ mines = <<<<0, 0>>, <<1, 0>>, <<1, 1>>>>
    /\ VisibleSet = {}
    /\ state = "ongoing"
    /\ call'.coordinates = <<0, 3>>

(* C9: cascade example, as claimed.  In the game of dimensions (2, 4) with *)
(* the mines (0, 0), (1, 0), (1, 1), with every cell hidden, dig (0, 3)    *)
(* returns 4, leaves visible [[F, F, T, T], [F, F, T, T]] and sets the     *)
(* state to 'victory'.                                                     *)
C9_CascadeExample_AsClaimed ==
    [][ExampleDigStep =>
         /\ call'.outcome = "returned"
         /\ call'.ret = 4
         /\ visible' = ExampleVisible
         /\ state' = "victory"]_vars

(* C9, amended: that dig returns 4 and leaves visible                      *)
(* [[F, F, T, T], [F, F, T, T]], and the state stays 'ongoing': the safe   *)
(* cell (0, 1), of count 3, is still hidden.  (The doctest of dig_2d that  *)
(* ends in 'victory' starts with (0, 1) visible.)                          *)
C9_CascadeExample ==
    [][ExampleDigStep =>
         /\ call'.outcome = "returned"
         /\ call'.ret = 4
         /\ visible' = ExampleVisible
         /\ state' = "ongoing"
         /\ ~VisibleAt(<<0, 1>>)']_vars

\* the example game after dig (0, 3) as its first dig: the four cells it
\* returned are all that is visible
C9_Witness ==
    /\ Dug
    /\ dimensions = <<2, 4>>
    /\ mines = <<<<0, 0>>, <<1, 0>>, <<1, 1>>>>
    /\ call.coordinates = <<0, 3>>
    /\ call.state_before = "ongoing"
    /\ call.ret = 4
    /\ Cardinality(VisibleSet) = 4
    /\ visible = ExampleVisible

(* C10: construction input validation.  new_game_nd raises and builds no   *)
(* game whenever a mine has a component outside its axis (a negative one   *)
(* included), has a rank other than that of the dimensions, or is listed   *)
(* twice.                                                                  *)
C10_MalformedInputRejected ==
    (pc # "new" /\ ~WellFormed(dimensions, mines)) =>
        (pc = "raised" /\ board = None /\ visible = None)

(* C11: out-of-range dig.  In an ongoing game, a call of dig_nd whose       *)
(* coordinate is not a cell of the board (its rank is not the rank of the  *)
(* dimensions, or a component lies outside 0 <= x < d, the negative ones   *)
(* included) is reported as an error: it does not return as a dig that     *)
(* found nothing or as a dig of another cell, and it leaves board, visible *)
(* and state as they were.                                                 *)
C11_OutOfRangeDigRejected ==
    [][(DigStep /\ state = "ongoing" /\ call'.coordinates \notin Cells) =>
         /\ call'.outcome # "returned"
         /\ board' = board
         /\ visible' = visible
         /\ state' = state]_vars

----------------------------------------------------------------------------
\* two nested arrays of one shape
RECURSIVE SameShape(_, _)
SameShape(a, b) ==
    IF IsList(a)
    THEN /\ IsList(b)
         /\ Len(a.list) = Len(b.list)
         /\ \A k \in 1..Len(a.list) : SameShape(a.list[k], b.list[k])
    ELSE ~IsList(b)

\* the decimal numerals of the counts a cell of a board of rank up to 3 can have
Numerals ==
    <<"1", "2", "3", "4", "5", "6", "7", "8", "9", "10", "11", "12", "13",
      "14", "15", "16", "17", "18", "19", "20", "21", "22", "23", "24", "25",
      "26">>

\* the symbol the rules give a cell
ShownSymbol(c, all_visible) ==
    IF ~all_visible /\ ~VisibleAt(c) THEN "_"
    ELSE IF c \in MineSet THEN "."
    ELSE IF Lookup(board, c).int = 0 THEN " "
    ELSE Numerals[Lookup(board, c).int]

\* the last call was render_nd
Rendered == pc = "game" /\ call.op = "render_nd"

(* C12: render symbols.  render_nd returns an array of the shape of the    *)
(* board that holds, for every cell: '_' if the cell is not visible and    *)
(* all_visible is false; otherwise '.' if the cell is a mine, ' ' if its   *)
(* board value is 0, and the decimal numeral of its board value if that is *)
(* greater than 0.  With all_visible true the visible array plays no part. *)
C12_RenderSymbols ==
    Rendered =>
        /\ SameShape(result.value, board)
        /\ \A c \in Cells :
              Lookup(result.value, c) = PyStr(ShownSymbol(c, call.all_visible))

\* a rendering of the lost 2x2x3 game that shows a hidden cell, the mine
\* that was dug and a cell with ten mines around it
C12_Witness ==
    /\ Rendered
    /\ ~call.all_visible
    /\ dimensions = <<2, 2, 3>>
    /\ state = "defeat"
    /\ Lookup(result.value, <<0, 0, 1>>) = PyStr("10")
    /\ Lookup(result.value, <<0, 0, 0>>) = PyStr(".")
    /\ Lookup(result.value, <<1, 1, 1>>) = PyStr("_")

----------------------------------------------------------------------------
\* a coordinate with a cell on either side of it on every axis
Interior(c) == \A i \in 1..Len(c) : 0 < c[i] /\ c[i] < dimensions[i] - 1

\* the last call was recursive_helper
NeighborsCalled == pc = "new" /\ call.op = "recursive_helper"

(* C13: neighbor set.  For dimensions of rank N >= 1 and a coordinate c of *)
(* the board, recursive_helper(c, N, dimensions) is the set of the         *)
(* coordinates of the board that differ from c by -1, 0 or +1 on every     *)
(* axis, c itself left out; when c has a cell on either side on every axis *)
(* the set has 3^N - 1 members; and a is a neighbor of b exactly when b is *)
(* a neighbor of a.                                                        *)
C13_NeighborSet ==
    NeighborsCalled =>
        LET c == call.coordinates
            N == Len(dimensions)
        IN  /\ result.value = {b \in Cells : Adjacent(c, b)}
            /\ Interior(c) => Cardinality(result.value) = 3^N - 1
            /\ \A b \in Cells :
                  b \in result.value <=> c \in recursive_helper(b, N, dimensions)

\* the neighbors of the middle cell of the 3x3x3 board: 26 of them
C13_Witness ==
    /\ NeighborsCalled
    /\ dimensions = <<3, 3, 3>>
    /\ call.coordinates = <<1, 1, 1>>
    /\ Cardinality(result.value) = 26

----------------------------------------------------------------------------
(* C14: board immutability.  Once new_game_nd has returned, no call of     *)
(* dig_nd, in any state of the game and at any coordinate of the board,    *)
(* changes a cell of the board or the dimensions: a dig changes visible    *)
(* and state only.                                                         *)
C14_BoardImmutable ==
    [][DigStep => (board' = board /\ dimensions' = dimensions)]_vars

\* a game after a dig of a mine and a later dig: lost, with the mine counts
\* of new_game_nd still in the board
C14_Witness ==
    /\ Dug
    /\ call.state_before = "defeat"
    /\ MineSet # {}
    /\ \A m \in MineSet : Lookup(board, m) = PyStr(".")
    /\ \A c \in SafeCells :
          Lookup(board, c) = PyInt(Cardinality({m \in MineSet : Adjacent(c, m)}))
    /\ \E c \in SafeCells : VisibleAt(c)

----------------------------------------------------------------------------
\* this step is a call of render_nd
RenderStep == pc = "game" /\ pc' = "game" /\ call'.op = "render_nd"

(* C15: render purity.  A call of render_nd, with either value of          *)
(* all_visible and in any state of the game, leaves board, visible,        *)
(* dimensions and state as they were; and the array it returned shares no  *)
(* cell with the game: a later call of dig_nd does not alter it.           *)
C15_RenderPure ==
    [][/\ RenderStep =>
             /\ board' = board
             /\ visible' = visible
             /\ dimensions' = dimensions
             /\ state' = state
       /\ (DigStep /\ result.ref # "none") =>
             result'.value = result.value]_vars

\* a rendering still held after a dig that uncovered a cell it shows hidden
C15_Witness ==
    /\ Dug
    /\ result.ref # "none"
    /\ call.ret > 0
    /\ \E c \in Cells : VisibleAt(c) /\ Lookup(result.value, c) = PyStr("_")

----------------------------------------------------------------------------
\* the last call was revealed_squares
Revealed == pc = "game" /\ call.op = "revealed_squares"

\* a list that holds no coordinate twice
NoRepeat(list) ==
    \A i, j \in 1..Len(list) : list[i] = list[j] => i = j

(* C16: flood-fill termination.  On every board and from every safe start *)
(* coordinate, revealed_squares returns; it is called on each coordinate   *)
(* at most once, because a coordinate is in visited before its neighbors   *)
(* are explored; so the number of calls is at most the number of cells of  *)
(* the board.  (Every call puts its own coordinate first in the list it    *)
(* returns, lines 367 and 373, so final_list is the list of the calls.)    *)
C16_FloodFillTerminates ==
    Revealed =>
        /\ call.outcome = "returned"
        /\ NoRepeat(result.value.final_list)
        /\ Len(result.value.final_list) <= Cardinality(Cells)
        /\ result.value.final_list[1] = call.coordinates
        /\ result.value.visited =
              {result.value.final_list[i] : i \in 1..Len(result.value.final_list)}

\* the cascade over the whole 3x3 board without a mine, from its middle:
\* nine calls, where every cell has a visited neighbor on a cycle
C16_Witness ==
    /\ Revealed
    /\ dimensions = <<3, 3>>
    /\ mines = <<>>
    /\ call.coordinates = <<1, 1>>
    /\ Len(result.value.final_list) = 9

----------------------------------------------------------------------------
\* the last call was generate_coordinates
Enumerated == pc = "new" /\ call.op = "generate_coordinates"

\* the place of a coordinate in row-major order, the last axis varying
\* fastest: c[1] * (d[2] * ... * d[N]) + ... + c[N - 1] * d[N] + c[N]
RECURSIVE RowMajorIndex(_, _)
RowMajorIndex(c, dims) ==
    IF c = <<>> THEN 0
    ELSE RowMajorIndex(SubSeq(c, 1, Len(c) - 1), SubSeq(dims, 1, Len(dims) - 1))
             * dims[Len(dims)] + c[Len(c)]

(* C17: coordinate enumeration.  generate_coordinates(dimensions) yields   *)
(* every coordinate of the board exactly once and nothing else, in         *)
(* row-major order (the last axis varies fastest), and an invocation that  *)
(* follows another starts again from the first coordinate; so the loops    *)
(* over it in dig_nd and render_nd meet every cell exactly once.           *)
C17_CoordinateEnumeration ==
    Enumerated =>
        LET yielded == result.value IN
        /\ Len(yielded) = Cardinality(Cells)
        /\ {yielded[k] : k \in 1..Len(yielded)} = Cells
        /\ \A k \in 1..Len(yielded) : RowMajorIndex(yielded[k], dimensions) = k - 1
        /\ yielded[1] = [i \in 1..Len(dimensions) |-> 0]

\* the second enumeration of the 2x3x3 board: 18 coordinates, (0, 0, 1)
\* second and (0, 1, 0) fourth
C17_Witness ==
    /\ Enumerated
    /\ call.ret = 2
    /\ dimensions = <<2, 3, 3>>
    /\ Len(result.value) = 18
    /\ result.value[2] = <<0, 0, 1>>
    /\ result.value[4] = <<0, 1, 0>>

----------------------------------------------------------------------------
\* the coordinates revealed_squares lists from c, under an iteration order
Tiles(c, ord) ==
    LET tiles == revealed_squares(Game, c, {}, ord).final_list
    IN  {tiles[k] : k \in 1..Len(tiles)}

(* C18: a cascade never uncovers a mine.  In every game built from         *)
(* pairwise distinct mines inside the board and dug at coordinates of the  *)
(* board: the set of cells a dig of a safe cell reveals holds no mine; a   *)
(* mine becomes visible only in the dig_nd call made at its own            *)
(* coordinate; and at most one mine is ever visible.                       *)
C18_NoMineInCascade ==
    /\ [](pc = "game" =>
            /\ \A c \in SafeCells : \A ord \in IterationOrders :
                  Tiles(c, ord) \cap MineSet = {}
            /\ Cardinality(MineSet \cap VisibleSet) <= 1)
    /\ [][DigStep =>
            \A m \in MineSet :
                (~VisibleAt(m) /\ VisibleAt(m)') => call'.coordinates = m]_vars

\* a cascade that ran along two mines (it uncovered at least four cells,
\* some of them next to a mine) and uncovered neither
C18_Witness ==
    /\ Dug
    /\ call.state_before = "ongoing"
    /\ call.coordinates \in SafeCells
    /\ call.ret >= 4
    /\ Cardinality(MineSet) >= 2
    /\ \E c \in VisibleSet : \E m \in MineSet : Adjacent(c, m)
    /\ MineSet \cap VisibleSet = {}

----------------------------------------------------------------------------
(* C19: cascade closure and idempotent re-dig.  In every game built from   *)
(* pairwise distinct mines inside the board and dug at coordinates of the  *)
(* board, every visible cell of board value 0 has all its neighbors        *)
(* visible; and a call of dig_nd at a coordinate that is visible already,  *)
(* in an ongoing game, returns 0 and leaves visible and state as they      *)
(* were.                                                                   *)
C19_ClosureAndRedig ==
    /\ [](pc = "game" =>
            \A c \in VisibleSet :
                Lookup(board, c) = PyInt(0) =>
                    \A b \in Cells : Adjacent(c, b) => VisibleAt(b))
    /\ [][(DigStep /\ state = "ongoing" /\ call'.coordinates \in VisibleSet) =>
            /\ call'.outcome = "returned"
            /\ call'.ret = 0
            /\ visible' = visible
            /\ state' = state]_vars

\* a second dig at a visible cell of value 0 in a game that is still on,
\* with cells left hidden
C19_Witness ==
    /\ Dug
    /\ call.state_before = "ongoing"
    /\ state = "ongoing"
    /\ call.ret = 0
    /\ VisibleAt(call.coordinates)
    /\ Lookup(board, call.coordinates) = PyInt(0)
    /\ \E c \in SafeCells : ~VisibleAt(c)

----------------------------------------------------------------------------
\* dig_nd(game, a) and then dig_nd(game, b) on the game as it is: where the
\* game ends and what the two calls returned
DigTwice(a, b, ord) ==
    LET first == dig_nd(Game, a, ord)
        second == dig_nd(first.game, b, ord)
    IN  [visible |-> second.game.visible,
         state |-> second.game.state,
         outcomes |-> <<first.outcome, second.outcome>>,
         rets |-> <<first.ret, second.ret>>]

(* C20: digs on safe cells commute.  In every ongoing game built from      *)
(* pairwise distinct mines inside the board and reached by digs at         *)
(* coordinates of the board, for every two safe coordinates a and b: dig a *)
(* then b and dig b then a end with the same visible array and the same    *)
(* state, and the two returned values add up to the same total.            *)
C20_SafeDigsCommute ==
    (pc = "game" /\ state = "ongoing") =>
        \A a, b \in SafeCells : \A ord1, ord2 \in IterationOrders :
            LET ab == DigTwice(a, b, ord1)
                ba == DigTwice(b, a, ord2)
            IN  /\ ab.outcomes = <<"returned", "returned">>
                /\ ba.outcomes = <<"returned", "returned">>
                /\ ab.visible = ba.visible
                /\ ab.state = ba.state
                /\ ab.rets[1] + ab.rets[2] = ba.rets[1] + ba.rets[2]

\* an ongoing game after a dig, with two hidden safe cells whose cascades
\* overlap: each dig returns more when it comes first than when it comes
\* second, and the game is still on after both
C20_Witness ==
    /\ Dug
    /\ state = "ongoing"
    /\ \E a, b \in SafeCells \ VisibleSet :
          LET ab == DigTwice(a, b, "asc")
              ba == DigTwice(b, a, "asc")
          IN  /\ a # b
              /\ ab.rets[1] > ba.rets[2]
              /\ ba.rets[1] > ab.rets[2]
              /\ ab.rets[2] > 0
              /\ ab.state = "ongoing"

====
